---- MODULE Spec2Model ----
(***************************************************************************)
(* Model of the tree_menu application: the Menu / MenuItem tables with the *)
(* write paths Django offers for them (manager create, instance save,      *)
(* admin forms that run MenuItem.clean), and the draw_menu template tag    *)
(* with its helpers _normalize_path and _resolve_url.                      *)
(*                                                                         *)
(* Python strings are sequences of one-character strings, so that          *)
(* startswith / endswith / concatenation are computed, not assumed.        *)
(* None is the one-element sequence <<"None">>, a token no string holds.   *)
(* An absent id (parent_id is NULL, active_id is None) is NoneId; Python   *)
(* tests ids by truthiness, and primary keys start at 1.                   *)
(***************************************************************************)
EXTENDS Integers, Sequences, FiniteSets, TLC

VARIABLES
    menu_table,     \* Menu rows: menu_table[pk] is the menu's name
    item_table,     \* MenuItem rows: item_table[pk] is the row
    pc,             \* position of the request being served
    request,        \* the request's path, or None when the context has no request
    menu_name,      \* draw_menu's argument
    current_path,   \* draw_menu: current_path
    items,          \* draw_menu: the fetched rows, annotated
    by_id,          \* draw_menu: by_id
    children,       \* draw_menu: children
    roots,          \* draw_menu: roots
    active_id,      \* draw_menu: active_id
    expanded,       \* draw_menu: expanded
    cur,            \* draw_menu: cur of the ancestor walk
    queries,        \* the reads the current draw_menu has issued
    result,         \* what draw_menu returned
    u               \* the last direct call of a helper: [op, in, out]

db == <<menu_table, item_table>>
tag == <<pc, request, menu_name, current_path, items, by_id, children, roots,
         active_id, expanded, cur, queries, result>>
vars == <<menu_table, item_table, pc, request, menu_name, current_path, items,
          by_id, children, roots, active_id, expanded, cur, queries, result, u>>

(***************************************************************************)
(* Bounds of the model.                                                    *)
(***************************************************************************)
MaxItems == 2       \* MenuItem rows ever stored
MaxLen == 3         \* length of the generated strings given to the helpers

(***************************************************************************)
(* Values.                                                                 *)
(***************************************************************************)
None == <<"None">>
NoneId == 0
EmptyStr == <<>>
Truthy(s) == s # None /\ s # EmptyStr

SLASH == <<"/">>
HASH == <<"#">>
HTTP == <<"h","t","t","p",":","/","/">>
HTTPS == <<"h","t","t","p","s",":","/","/">>

startswith(s, p) == Len(p) <= Len(s) /\ SubSeq(s, 1, Len(p)) = p
endswith(s, p) == Len(p) <= Len(s) /\ SubSeq(s, Len(s) - Len(p) + 1, Len(s)) = p

\* the route names and paths of treeproject/urls.py
index == <<"i","n","d","e","x">>
about == <<"a","b","o","u","t">>
blog == <<"b","l","o","g">>
blog_categories == <<"b","l","o","g","_","c","a","t","e","g","o","r","i","e","s">>
blog_category_1 == <<"b","l","o","g","_","c","a","t","e","g","o","r","y","_","1">>
blog_category_2 == <<"b","l","o","g","_","c","a","t","e","g","o","r","y","_","2">>
blog_category_3 == <<"b","l","o","g","_","c","a","t","e","g","o","r","y","_","3">>
path_about == <<"/","a","b","o","u","t","/">>
path_blog == <<"/","b","l","o","g","/">>
path_blog_categories == <<"/","b","l","o","g","/","c","a","t","e","g","o","r","i","e","s","/">>
path_category_1 == path_blog_categories \o <<"1","/">>
path_category_2 == path_blog_categories \o <<"2","/">>
path_category_3 == path_blog_categories \o <<"3","/">>

urlpatterns ==
    << <<index, SLASH>>, <<about, path_about>>, <<blog, path_blog>>,
       <<blog_categories, path_blog_categories>>,
       <<blog_category_1, path_category_1>>,
       <<blog_category_2, path_category_2>>,
       <<blog_category_3, path_category_3>> >>

\* django.urls.reverse over urlpatterns: the path of the first pattern of that
\* name, or the token NoReverseMatch
NoReverseMatch == <<"NoReverseMatch">>
reverse(named) ==
    LET hits == {i \in 1..Len(urlpatterns) : urlpatterns[i][1] = named}
    IN IF hits = {} THEN NoReverseMatch
       ELSE urlpatterns[CHOOSE i \in hits : \A j \in hits : i <= j][2]

\* strings used by the tests and as stored values
non_existent_name == <<"n","o","n","_","e","x","i","s","t","e","n","t","_","n","a","m","e">>
raw_blog == <<"/","b","l","o","g">>
raw_external == <<"h","t","t","p",":","/","/","e","x","a","m","p","l","e",".","c","o","m">>

(***************************************************************************)
(* tree_menu_tags.py: the helpers.                                         *)
(***************************************************************************)
normalize_always_appends(path) ==
    IF ~Truthy(path) THEN SLASH
    ELSE IF startswith(path, HTTP) \/ startswith(path, HTTPS) \/ startswith(path, HASH)
         THEN path
    ELSE LET p1 == IF ~startswith(path, SLASH) THEN SLASH \o path ELSE path
         IN p1 \o SLASH

normalize_keeps_relative(path) ==
    IF ~Truthy(path) THEN SLASH
    ELSE IF startswith(path, HTTP) \/ startswith(path, HTTPS) \/ startswith(path, HASH)
         THEN path
    ELSE IF path # SLASH /\ ~endswith(path, SLASH) THEN path \o SLASH ELSE path

_normalize_path(path) ==
    IF ~Truthy(path) THEN SLASH
    ELSE IF startswith(path, HTTP) \/ startswith(path, HTTPS) \/ startswith(path, HASH)
         THEN path
    ELSE LET p1 == IF ~startswith(path, SLASH) THEN SLASH \o path ELSE path
             p2 == IF p1 # SLASH /\ ~endswith(p1, SLASH) THEN p1 \o SLASH ELSE p1
         IN p2

resolve_prefers_raw(named, raw) ==
    IF Truthy(raw) THEN raw
    ELSE IF Truthy(named)
         THEN (IF reverse(named) = NoReverseMatch THEN HASH ELSE reverse(named))
         ELSE HASH

_resolve_url(named, raw) ==
    IF Truthy(named)
    THEN (IF reverse(named) = NoReverseMatch THEN HASH ELSE reverse(named))
    ELSE (IF Truthy(raw) THEN raw ELSE HASH)

(***************************************************************************)
(* models.py: MenuItem.clean. self is [menu_id, parent, url, named_url];   *)
(* self.parent is [exists, menu_id], exists = FALSE standing for None.     *)
(***************************************************************************)
clean_skips_parent_check(self) ==
    IF Truthy(self.url) = Truthy(self.named_url) THEN "ValidationError: url"
    ELSE "ok"

clean(self) ==
    IF Truthy(self.url) = Truthy(self.named_url) THEN "ValidationError: url"
    ELSE IF self.parent.exists /\ self.parent.menu_id # self.menu_id
         THEN "ValidationError: parent"
    ELSE "ok"

(***************************************************************************)
(* The stored values the model draws from.                                 *)
(***************************************************************************)
RequestedNames == {"main_menu", "footer_menu", "no_such_menu"}
SortOrders == {0, 10}
\* <<url, named_url>> of a row: neither, a named route, a raw path, a raw path
\* and a named route, an unknown route name
Links ==
    { <<EmptyStr, EmptyStr>>,
      <<EmptyStr, index>>,
      <<EmptyStr, blog>>,
      <<raw_blog, EmptyStr>>,
      <<path_category_1, EmptyStr>>,
      <<raw_blog, index>>,
      <<EmptyStr, non_existent_name>> }
\* request.path, or None for a context without a request
Requests == {None, raw_blog, path_category_1, path_about}

MenuIds == 1..Len(menu_table)
ItemIds == 1..Len(item_table)
Row(menu_id, parent_id, link, sort_order) ==
    [menu_id |-> menu_id, parent_id |-> parent_id, url |-> link[1],
     named_url |-> link[2], sort_order |-> sort_order]

\* the model instance MenuItem.clean sees for a row about to be written
Instance(row) ==
    [menu_id |-> row.menu_id, url |-> row.url, named_url |-> row.named_url,
     parent |-> IF row.parent_id = NoneId
                THEN [exists |-> FALSE, menu_id |-> NoneId]
                ELSE [exists |-> TRUE, menu_id |-> item_table[row.parent_id].menu_id]]

(***************************************************************************)
(* The write paths of MenuItem.  menu and parent are foreign keys, so they *)
(* name stored rows.  Manager create and instance save do not run clean(); *)
(* the admin's model forms do.                                             *)
(***************************************************************************)
ItemCreate(row) ==
    /\ pc = "idle"
    /\ Len(item_table) < MaxItems
    /\ item_table' = Append(item_table, row)
    /\ UNCHANGED <<menu_table, tag, u>>

ItemSave(pk, row) ==
    /\ pc = "idle"
    /\ item_table' = [item_table EXCEPT ![pk] = row]
    /\ UNCHANGED <<menu_table, tag, u>>

AdminAdd(row) ==
    /\ pc = "idle"
    /\ Len(item_table) < MaxItems
    /\ clean(Instance(row)) = "ok"
    /\ item_table' = Append(item_table, row)
    /\ UNCHANGED <<menu_table, tag, u>>

AdminChange(pk, row) ==
    /\ pc = "idle"
    /\ clean(Instance(row)) = "ok"
    /\ item_table' = [item_table EXCEPT ![pk] = row]
    /\ UNCHANGED <<menu_table, tag, u>>

(***************************************************************************)
(* draw_menu.                                                              *)
(***************************************************************************)
\* getattr(request, "path", "/")
request_path(req) == IF req = None THEN SLASH ELSE req

RECURSIVE order_by_pk(_)
order_by_pk(pks) ==
    IF pks = {} THEN <<>>
    ELSE LET first == CHOOSE i \in pks : \A j \in pks : i <= j
         IN <<first>> \o order_by_pk(pks \ {first})

\* order_by("sort_order", "id")
RECURSIVE order_by(_)
order_by(pks) ==
    IF pks = {} THEN <<>>
    ELSE LET first == CHOOSE i \in pks : \A j \in pks :
                          \/ i = j
                          \/ item_table[i].sort_order < item_table[j].sort_order
                          \/ /\ item_table[i].sort_order = item_table[j].sort_order
                             /\ i < j
         IN <<first>> \o order_by(pks \ {first})

values(pk) ==
    [id |-> pk, parent_id |-> item_table[pk].parent_id, url |-> item_table[pk].url,
     named_url |-> item_table[pk].named_url, sort_order |-> item_table[pk].sort_order]

filter_ignores_menu(name) == ItemIds

\* MenuItem.objects.filter(menu__name=menu_name)
filter(name) == {pk \in ItemIds : menu_table[item_table[pk].menu_id] = name}

\* the rows of the one query
fetch(name) == LET pks == order_by(filter(name)) IN [i \in 1..Len(pks) |-> values(pks[i])]

lookup_then_fetch(name) ==
    << [model |-> "Menu", name |-> name], [model |-> "MenuItem", name |-> name] >>

\* the queries draw_menu sends: the queryset is evaluated once, by list()
issued(name) == << [model |-> "MenuItem", name |-> name] >>

annotate(rows) ==
    [i \in 1..Len(rows) |->
        LET resolved == _resolve_url(rows[i].named_url, rows[i].url)
        IN [id |-> rows[i].id, parent_id |-> rows[i].parent_id, url |-> rows[i].url,
            named_url |-> rows[i].named_url, sort_order |-> rows[i].sort_order,
            resolved_url |-> resolved, norm_url |-> _normalize_path(resolved)]]

ids_of(its) == {its[i].id : i \in 1..Len(its)}
make_by_id(its) ==
    [pk \in ids_of(its) |->
        its[CHOOSE i \in 1..Len(its) :
                its[i].id = pk /\ \A j \in 1..Len(its) : its[j].id = pk => j <= i]]

\* the ids, in list order, of the rows whose parent_id is p
RECURSIVE id_list(_, _, _)
id_list(its, i, p) ==
    IF i > Len(its) THEN <<>>
    ELSE (IF its[i].parent_id = p THEN <<its[i].id>> ELSE <<>>) \o id_list(its, i + 1, p)

make_children(its) ==
    [p \in {its[i].parent_id : i \in 1..Len(its)} \ {NoneId} |-> id_list(its, 1, p)]
make_roots(its) == id_list(its, 1, NoneId)

RECURSIVE scan_no_root_rule(_, _, _, _, _)
scan_no_root_rule(its, cp, i, act, max_len) ==
    IF i > Len(its) THEN act
    ELSE LET norm_url == its[i].norm_url
         IN IF ~startswith(norm_url, SLASH)
            THEN scan_no_root_rule(its, cp, i + 1, act, max_len)
            ELSE IF startswith(cp, norm_url) /\ Len(norm_url) > max_len
                 THEN scan_no_root_rule(its, cp, i + 1, its[i].id, Len(norm_url))
            ELSE scan_no_root_rule(its, cp, i + 1, act, max_len)

RECURSIVE scan_ignores_path(_, _, _, _, _)
scan_ignores_path(its, cp, i, act, max_len) ==
    IF i > Len(its) THEN act
    ELSE LET norm_url == its[i].norm_url
         IN IF ~startswith(norm_url, SLASH)
            THEN scan_ignores_path(its, cp, i + 1, act, max_len)
            ELSE IF norm_url = SLASH /\ cp # SLASH
                 THEN scan_ignores_path(its, cp, i + 1, act, max_len)
            ELSE IF Len(norm_url) > max_len
                 THEN scan_ignores_path(its, cp, i + 1, its[i].id, Len(norm_url))
            ELSE scan_ignores_path(its, cp, i + 1, act, max_len)

RECURSIVE scan_last_wins(_, _, _, _, _)
scan_last_wins(its, cp, i, act, max_len) ==
    IF i > Len(its) THEN act
    ELSE LET norm_url == its[i].norm_url
         IN IF ~startswith(norm_url, SLASH)
            THEN scan_last_wins(its, cp, i + 1, act, max_len)
            ELSE IF norm_url = SLASH /\ cp # SLASH
                 THEN scan_last_wins(its, cp, i + 1, act, max_len)
            ELSE IF startswith(cp, norm_url) /\ Len(norm_url) >= max_len
                 THEN scan_last_wins(its, cp, i + 1, its[i].id, Len(norm_url))
            ELSE scan_last_wins(its, cp, i + 1, act, max_len)

\* the loop of step 5, from row i on, with the loop's active_id and max_len
RECURSIVE scan(_, _, _, _, _)
scan(its, cp, i, act, max_len) ==
    IF i > Len(its) THEN act
    ELSE LET norm_url == its[i].norm_url
         IN IF ~startswith(norm_url, SLASH) THEN scan(its, cp, i + 1, act, max_len)
            ELSE IF norm_url = SLASH /\ cp # SLASH THEN scan(its, cp, i + 1, act, max_len)
            ELSE IF startswith(cp, norm_url) /\ Len(norm_url) > max_len
                 THEN scan(its, cp, i + 1, its[i].id, Len(norm_url))
            ELSE scan(its, cp, i + 1, act, max_len)

find_active_no_root_rule(its, cp) == scan_no_root_rule(its, cp, 1, NoneId, 0)
find_active_ignores_path(its, cp) == scan_ignores_path(its, cp, 1, NoneId, 0)
find_active_last_wins(its, cp) == scan_last_wins(its, cp, 1, NoneId, 0)
find_active(its, cp) == scan(its, cp, 1, NoneId, 0)

NotReturned == [kind |-> "none", menu_context |-> <<>>]
Idle ==
    /\ pc = "idle" /\ request = None /\ menu_name = "" /\ current_path = EmptyStr
    /\ items = <<>> /\ by_id = <<>> /\ children = <<>> /\ roots = <<>>
    /\ active_id = NoneId /\ expanded = {} /\ cur = NoneId /\ queries = <<>>
    /\ result = NotReturned

\* lines 64-105: the read, the annotation, the tree and the active entry; an empty
\* read returns "" at once
DrawMenu(req, name) ==
    /\ pc = "idle"
    /\ request' = req
    /\ menu_name' = name
    /\ current_path' = _normalize_path(request_path(req))
    /\ queries' = issued(name)
    /\ items' = annotate(fetch(name))
    /\ IF items' = <<>>
       THEN /\ pc' = "returned"
            /\ result' = [kind |-> "empty", menu_context |-> <<>>]
            /\ UNCHANGED <<by_id, children, roots, active_id, expanded, cur>>
       ELSE /\ pc' = "walk"
            /\ by_id' = make_by_id(items')
            /\ children' = make_children(items')
            /\ roots' = make_roots(items')
            /\ active_id' = find_active(items', current_path')
            /\ expanded' = {}
            /\ cur' = active_id'
            /\ UNCHANGED result
    /\ UNCHANGED <<db, u>>

WalkStep_no_loop ==
    /\ pc = "walk"
    /\ cur # NoneId
    /\ expanded' = expanded \cup {cur}
    /\ cur' = NoneId
    /\ UNCHANGED <<db, pc, request, menu_name, current_path, items, by_id, children,
                   roots, active_id, queries, result, u>>

\* lines 111-113: one turn of the ancestor walk; by_id[cur] of an id that was not
\* fetched raises KeyError
WalkStep ==
    /\ pc = "walk"
    /\ cur # NoneId
    /\ expanded' = expanded \cup {cur}
    /\ IF cur \in DOMAIN by_id
       THEN /\ cur' = by_id[cur].parent_id
            /\ UNCHANGED pc
       ELSE /\ pc' = "error"
            /\ UNCHANGED cur
    /\ UNCHANGED <<db, request, menu_name, current_path, items, by_id, children,
                   roots, active_id, queries, result, u>>

\* lines 116-126: the walk is over, the view model goes to the template
Render ==
    /\ pc = "walk"
    /\ cur = NoneId
    /\ pc' = "returned"
    /\ result' = [kind |-> "rendered",
                  menu_context |->
                     [menu_name |-> menu_name, items_by_id |-> by_id,
                      root_items |-> [i \in 1..Len(roots) |-> by_id[roots[i]]],
                      children_map |-> children, active_id |-> active_id,
                      expanded_ids |-> expanded, request |-> request]]
    /\ UNCHANGED <<db, request, menu_name, current_path, items, by_id, children,
                   roots, active_id, expanded, cur, queries, u>>

\* the request ends, with the tag's return value or with the exception
EndRequest ==
    /\ pc \in {"returned", "error"}
    /\ pc' = "idle" /\ request' = None /\ menu_name' = "" /\ current_path' = EmptyStr
    /\ items' = <<>> /\ by_id' = <<>> /\ children' = <<>> /\ roots' = <<>>
    /\ active_id' = NoneId /\ expanded' = {} /\ cur' = NoneId /\ queries' = <<>>
    /\ result' = NotReturned
    /\ UNCHANGED <<db, u>>

NoCall == [op |-> "none", in |-> <<>>, out |-> <<>>]

\* the two menus of the tests' fixtures are stored, and no entry yet
Init ==
    /\ menu_table = <<"main_menu", "footer_menu">>
    /\ item_table = <<>>
    /\ Idle
    /\ u = NoCall

Rows == {Row(m, p, l, s) : m \in MenuIds, p \in {NoneId} \cup ItemIds, l \in Links,
                           s \in SortOrders}

Next ==
    \/ \E row \in Rows : ItemCreate(row)
    \/ \E pk \in ItemIds, row \in Rows : ItemSave(pk, row)
    \/ \E row \in Rows : AdminAdd(row)
    \/ \E pk \in ItemIds, row \in Rows : AdminChange(pk, row)
    \/ \E req \in Requests, name \in RequestedNames : DrawMenu(req, name)
    \/ WalkStep
    \/ Render
    \/ EndRequest

Spec == Init /\ [][Next]_vars

(***************************************************************************)
(* The helpers called directly, as the unit tests call them.               *)
(***************************************************************************)
MaxRows == 2        \* rows in a list handed to the annotation loop
Alphabet == {"/", "a", "b", "#"}
Generated == UNION {[1..k -> Alphabet] : k \in 0..MaxLen}
Paths ==
    Generated \cup {None, HTTP, HTTPS, raw_external, HTTPS \o <<"a","/">>,
                    <<"h","t","t","p",":","/">>, <<"h","t","t","p","/","/">>,
                    raw_blog, path_category_1}

NamedArgs == {None, EmptyStr, index, about, non_existent_name}
RawArgs == {None, EmptyStr, raw_blog, about}
DictRows ==
    {[id |-> 1, parent_id |-> NoneId, url |-> r, named_url |-> n, sort_order |-> 0] :
        n \in NamedArgs, r \in RawArgs}

Instances ==
    {[menu_id |-> m, url |-> r, named_url |-> n, parent |-> p] :
        m \in {1, 2}, r \in {EmptyStr, raw_blog}, n \in {EmptyStr, index},
        p \in {[exists |-> FALSE, menu_id |-> NoneId],
               [exists |-> TRUE, menu_id |-> 1], [exists |-> TRUE, menu_id |-> 2]}}

CallNormalize(path) ==
    /\ u = NoCall
    /\ u' = [op |-> "normalize", in |-> path, out |-> _normalize_path(path)]
    /\ UNCHANGED <<db, tag>>

\* the result of a call is normalized again
CallNormalizeAgain ==
    /\ u.op \in {"normalize", "renormalize"}
    /\ u' = [op |-> "renormalize", in |-> u.out, out |-> _normalize_path(u.out)]
    /\ UNCHANGED <<db, tag>>

\* lines 77-79 over a list of row dicts
CallAnnotate(rows) ==
    /\ u = NoCall
    /\ u' = [op |-> "annotate", in |-> rows, out |-> annotate(rows)]
    /\ UNCHANGED <<db, tag>>

CallClean(self) ==
    /\ u = NoCall
    /\ u' = [op |-> "clean", in |-> self, out |-> clean(self)]
    /\ UNCHANGED <<db, tag>>

\* the call's result has been looked at; the next call starts afresh
CallDone ==
    /\ u # NoCall
    /\ u' = NoCall
    /\ UNCHANGED <<db, tag>>

NextHelpers ==
    \/ \E path \in Paths : CallNormalize(path)
    \/ CallNormalizeAgain
    \/ \E k \in 1..MaxRows : \E rows \in [1..k -> DictRows] : CallAnnotate(rows)
    \/ \E self \in Instances : CallClean(self)
    \/ CallDone

SpecHelpers == Init /\ [][NextHelpers]_vars

(***************************************************************************)
(* The properties.                                                         *)
(***************************************************************************)
\* draw_menu got rows and went on past step 5
Built == pc \in {"walk", "error"} \/ (pc = "returned" /\ result.kind = "rendered")
Rendered == pc = "returned" /\ result.kind = "rendered"

\* the rows that may become active, by the rule of the specification
Candidates ==
    {i \in 1..Len(items) :
        /\ startswith(items[i].norm_url, SLASH)
        /\ startswith(current_path, items[i].norm_url)
        /\ (items[i].norm_url = SLASH => current_path = SLASH)}

\* row i is at or before row j in ascending (sort_order, id)
Before(i, j) ==
    \/ items[i].sort_order < items[j].sort_order
    \/ items[i].sort_order = items[j].sort_order /\ items[i].id <= items[j].id

\* the ids reached from the ids of S by following parent_id through by_id
RECURSIVE UpFrom(_)
UpFrom(S) ==
    LET T == S \cup ({by_id[x].parent_id : x \in S \cap DOMAIN by_id} \ {NoneId})
    IN IF T = S THEN S ELSE UpFrom(T)

\* C1: the active id is None exactly when no row is a candidate; otherwise it is
\* the candidate of the longest normalized URL, the first in (sort_order, id)
\* among the candidates of that same URL
C1_ActiveIsLongestFirstCandidate ==
    Built =>
        /\ (active_id = NoneId) <=> (Candidates = {})
        /\ Candidates # {} =>
              \E i \in Candidates :
                  /\ items[i].id = active_id
                  /\ \A j \in Candidates :
                        /\ Len(items[j].norm_url) <= Len(items[i].norm_url)
                        /\ items[j].norm_url = items[i].norm_url => Before(i, j)

\* two candidates of the same normalized URL, a shorter one too; the later of the
\* two equal ones has the smaller id
C1_Witness ==
    /\ Rendered
    /\ Len(items) = 2
    /\ Candidates = {1, 2}
    /\ items[1].norm_url = items[2].norm_url
    /\ items[1].id > items[2].id
    /\ active_id = items[1].id

\* C2: in the view model handed to the template, the expanded ids are the active
\* id and what the parent_id chain reaches from it, and nothing when no id is active
C2_ExpandedIsAncestorChain ==
    Rendered =>
        result.menu_context.expanded_ids =
            IF result.menu_context.active_id = NoneId THEN {}
            ELSE UpFrom({result.menu_context.active_id})

C2_Witness ==
    /\ Rendered
    /\ active_id # NoneId
    /\ by_id[active_id].parent_id # NoneId
    /\ by_id[active_id].parent_id # active_id
    /\ Cardinality(result.menu_context.expanded_ids) = 2
    /\ Len(items) = 2

\* C3: off the root path, a row whose normalized URL is "/" is not the active one,
\* and is expanded only as an ancestor of another, active row
C3_RootOnlyMatchesRoot ==
    Built =>
        \A i \in 1..Len(items) :
            (items[i].norm_url = SLASH /\ current_path # SLASH) =>
                /\ active_id # items[i].id
                /\ items[i].id \in expanded =>
                      /\ active_id # NoneId
                      /\ items[i].id \in UpFrom({active_id}) \ {active_id}

C3_Witness ==
    /\ Rendered
    /\ current_path = path_category_1
    /\ \E i \in 1..Len(items) : items[i].norm_url = SLASH /\ items[i].id \notin expanded
    /\ active_id # NoneId

\* C4: a draw_menu under way or over has sent one query, for MenuItem
C4_OneRead ==
    pc # "idle" => Len(queries) = 1 /\ queries[1].model = "MenuItem"

C4_Witness ==
    /\ Rendered
    /\ Len(items) = 2
    /\ Cardinality(expanded) = 2
    /\ Len(queries) = 1

\* C5: for a name no stored menu has, draw_menu returns the empty result and does
\* not raise
StoredNames == {menu_table[m] : m \in MenuIds}
C5_UnknownMenuIsEmpty ==
    (pc # "idle" /\ menu_name \notin StoredNames) =>
        pc = "returned" /\ result.kind = "empty"

C5_Witness ==
    /\ pc = "returned"
    /\ menu_name = "no_such_menu"
    /\ result.kind = "empty"
    /\ Len(item_table) = 2
    /\ request = path_category_1
    /\ \E pk \in ItemIds : item_table[pk].url = path_category_1

\* C6: draw_menu never raises, whatever rows the menu holds
C6_NeverRaises == pc # "error"

\* C7: every stored row has exactly one of url and named_url, and a parent of its
\* own menu
C7_StoredRowsValid ==
    \A pk \in ItemIds :
        /\ Truthy(item_table[pk].url) # Truthy(item_table[pk].named_url)
        /\ item_table[pk].parent_id # NoneId =>
              item_table[item_table[pk].parent_id].menu_id = item_table[pk].menu_id

\* C8: clean() raises exactly when both or neither of url and named_url are set,
\* or the parent is of another menu
C8_CleanRaisesIff ==
    u.op = "clean" =>
        (u.out # "ok") <=>
            \/ (u.in.url # EmptyStr /\ u.in.named_url # EmptyStr)
            \/ (u.in.url = EmptyStr /\ u.in.named_url = EmptyStr)
            \/ (u.in.parent.exists /\ u.in.parent.menu_id # u.in.menu_id)

C8_Witness ==
    /\ u.op = "clean"
    /\ u.in.url # EmptyStr /\ u.in.named_url = EmptyStr
    /\ u.in.parent.exists /\ u.in.parent.menu_id # u.in.menu_id
    /\ u.out # "ok"

\* C9: each row's resolved URL is the route's path for a resolvable name (the raw
\* URL ignored), "#" for an unresolvable name, the raw URL when no name is given,
\* "#" when neither is given: by the row's own two fields alone
Unset(s) == s = None \/ s = EmptyStr
RoutePaths(named) == {urlpatterns[k][2] : k \in {k \in 1..Len(urlpatterns) : urlpatterns[k][1] = named}}
C9_ResolvedUrlByCase ==
    u.op = "annotate" =>
        \A i \in 1..Len(u.in) :
            LET named == u.in[i].named_url
                raw == u.in[i].url
                got == u.out[i].resolved_url
            IN /\ (~Unset(named) /\ RoutePaths(named) # {}) => got \in RoutePaths(named)
               /\ (~Unset(named) /\ RoutePaths(named) = {}) => got = HASH
               /\ (Unset(named) /\ ~Unset(raw)) => got = raw
               /\ (Unset(named) /\ Unset(raw)) => got = HASH

\* a row of an unknown route name beside a row of a known one and a raw URL
C9_Witness ==
    /\ u.op = "annotate"
    /\ Len(u.in) = 2
    /\ u.in[1].named_url = non_existent_name /\ u.out[1].resolved_url = HASH
    /\ u.in[2].named_url = about /\ u.in[2].url = raw_blog
    /\ u.out[2].resolved_url = path_about

\* C10: normalizing a normalized path changes nothing
C10_NormalizeIdempotent ==
    u.op = "renormalize" => u.out = u.in

C10_Witness ==
    /\ u.op = "renormalize"
    /\ u.in = <<"/", "a", "/", "b", "/">>
    /\ u.out = <<"/", "a", "/", "b", "/">>

\* string s begins with string p
Begins(s, p) == Len(p) <= Len(s) /\ \A k \in 1..Len(p) : s[k] = p[k]

\* C11: _normalize_path of a string is "/" for the empty string, the string
\* itself when it starts with "http://", "https://" or "#", and otherwise the
\* string with "/" put in front if it does not start with it and "/" put behind if
\* it does not end with it, which starts and ends with "/"
C11_NormalizeByCase ==
    (u.op = "normalize" /\ u.in # None) =>
        IF u.in = EmptyStr THEN u.out = SLASH
        ELSE IF \/ Begins(u.in, HTTP)
                \/ Begins(u.in, HTTPS)
                \/ u.in[1] = "#"
             THEN u.out = u.in
        ELSE /\ u.out[1] = "/"
             /\ u.out[Len(u.out)] = "/"
             /\ u.out = (IF u.in[1] = "/" THEN <<>> ELSE SLASH) \o u.in
                        \o (IF u.in[Len(u.in)] = "/" THEN <<>> ELSE SLASH)

\* a relative path without a trailing slash gets both
C11_Witness ==
    /\ u.op = "normalize"
    /\ u.in = <<"a", "/", "b">>
    /\ u.out = <<"/", "a", "/", "b", "/">>

\* the list of ids is in strictly ascending (sort_order, id) of the rows of ctx
Ascending(ctx, ids) ==
    \A a, b \in 1..Len(ids) :
        a < b =>
            LET x == ctx.items_by_id[ids[a]]
                y == ctx.items_by_id[ids[b]]
            IN \/ x.sort_order < y.sort_order
               \/ x.sort_order = y.sort_order /\ x.id < y.id
Occurrences(ids, pk) == Cardinality({k \in 1..Len(ids) : ids[k] = pk})

\* C12: in the view model, the root list and each children list are in ascending
\* (sort_order, id), and each fetched row is once in the root list if it has no
\* parent, once in the children list of its parent_id otherwise, and nowhere else
C12_ListsOrderedAndPartition ==
    Rendered =>
        LET ctx == result.menu_context
            root_ids == [k \in 1..Len(ctx.root_items) |-> ctx.root_items[k].id]
        IN /\ Ascending(ctx, root_ids)
           /\ \A p \in DOMAIN ctx.children_map : Ascending(ctx, ctx.children_map[p])
           /\ \A i \in 1..Len(items) :
                 /\ Occurrences(root_ids, items[i].id) =
                        (IF items[i].parent_id = NoneId THEN 1 ELSE 0)
                 /\ items[i].parent_id # NoneId =>
                        items[i].parent_id \in DOMAIN ctx.children_map
                 /\ \A p \in DOMAIN ctx.children_map :
                        Occurrences(ctx.children_map[p], items[i].id) =
                            (IF items[i].parent_id = p THEN 1 ELSE 0)

\* two children of one parent, the row of the greater id first by its sort_order
C12_Witness ==
    /\ Rendered
    /\ 1 \in DOMAIN result.menu_context.children_map
    /\ result.menu_context.children_map[1] = <<2, 1>>
    /\ result.menu_context.root_items = <<>>

\* row i's normalized URL is an absolute path the current path begins with, the
\* root only for the root path
PrefixMatch(i) ==
    /\ Begins(items[i].norm_url, SLASH)
    /\ Begins(current_path, items[i].norm_url)
    /\ (items[i].norm_url = SLASH => current_path = SLASH)

RowsPassClean == \A pk \in ItemIds : clean(Instance(item_table[pk])) = "ok"

\* a request under way is run to its end: the loop takes its next turn, the
\* template is rendered
SpecLive == Spec /\ WF_vars(WalkStep) /\ WF_vars(Render)

\* C14: with stored rows that all pass clean(), the ancestor walk of draw_menu
\* comes to an end
C14_WalkTerminates == (pc = "walk" /\ RowsPassClean) ~> (pc # "walk")

\* C14, on a finite run: with stored rows that all pass clean(), the walk never
\* comes to a row it has already visited
C14_WalkNeverRevisits ==
    (pc = "walk" /\ RowsPassClean /\ cur # NoneId) => cur \notin expanded

====
